---- MODULE Spec2Model ----
(***************************************************************************)
(* Model of scene.Scene (libs/game/scene.ts): the sprite registry, the     *)
(* fixed frame handlers that init() registers with the event context, the  *)
(* render cache and the flag-gated z sort of the core draw sequence; and of *)
(* the serial namespace: its text output, its polling readUntil and its    *)
(* behaviour without a transport device.                                   *)
(*                                                                         *)
(* One step of the model is one call into the scene (init, addSprite,      *)
(* render, destroy), one write by other code to a public field (flags,     *)
(* a sprite's z, Scene.initializers), or one frame handler run by the      *)
(* event context.  Other code runs between any two frame handlers.         *)
(***************************************************************************)
EXTENDS Integers, Sequences, FiniteSets, TLC

\* ---- bounds of the model ------------------------------------------------
MaxSprites == 2
MaxTicks == 2
MaxInitializers == 2
MaxForever == 2
MaxPauses == 2
MaxRx == 2
MaxTime == 4

\* ---- program constants --------------------------------------------------
NeedsSorting == 2

CONTROLLER_PRIORITY == 8
CONTROLLER_SPRITES_PRIORITY == 13
FOLLOW_SPRITE_PRIORITY == 14
PHYSICS_PRIORITY == 15
RENDER_SPRITES_PRIORITY == 90
RENDER_DIAGNOSTICS_PRIORITY == 150
UPDATE_SCREEN_PRIORITY == 200

\* the JavaScript value undefined
Undefined == "undefined"

\* z values sprites take
ZValues == {0, 1}

\* the frame times the event context reports; nothing but the controller
\* handler reads them and nothing reads _millis, so one value stands for all
Deltas == {1}

\* the frame times of the scene clock's specification
FrameDeltas == {0, 1, 2}

\* what a callback of Scene.initializers does with the scene it is given
InitializerKinds == {"follow", "reinit"}

VARIABLES
    refs,             \* every field of Scene but _millis: "set" or undefined
    allSprites,       \* Scene.allSprites, the array when the field is set
    spriteNextId,     \* Scene.spriteNextId, the number when the field is set
    flags,            \* Scene.flags, the number when the field is set
    millis,           \* Scene._millis
    cachedRender,     \* Scene.cachedRender, the image when the field is set
    initializers,     \* Scene.initializers (static)
    frameHandlers,    \* the event context's frame handlers, in run order
    pc,               \* 0: between ticks; k > 0: frameHandlers[k] runs next
    tick,             \* number of ticks started
    crashed,          \* a frame handler threw into the event context
    \* history variables
    threw,            \* the last call into the scene threw
    everDestroyed,    \* destroy() has been called
    nextObj,          \* number of sprite objects addSprite has taken
    lastAdd,          \* how the last addSprite call ended, if there was one
    idLog,            \* ids assigned by addSprite, in call order
    initLog,          \* initializer invocations, in order
    ran,              \* frame handlers run in the current tick, in order
    gen90,            \* number of runs of the render frame handler
    draws,            \* core draws of the current frame, by who ran them
    lastDraw,         \* the core draw of the step just taken, if it made one
    everSorted,       \* a core draw has sorted allSprites
    lastRet,          \* the last value render() returned since the render
                      \* frame handler last ran
    sinceDiag,        \* NeedsSorting written since the last diagnostics handler
    deltaLog,         \* the frame times the controller handler has read
    handledTicks,     \* ticks started with frame handlers registered
    sortPending,      \* NeedsSorting was set and no core draw has sorted since
    \* the forever loops of the scene
    foreverHandlers,  \* Scene.gameForeverHandlers: the entries, each with its
                      \* lock, its body's progress and the history of its last tick
    foreverTicks,     \* ticks the forever loops have seen
    \* the serial namespace
    device,           \* device() returns a transport device
    now,              \* control.millis()
    rxBuffer,         \* the bytes the device has received and nobody has read
    rxCount,          \* number of bytes the transport has delivered
    decoderBuf,       \* the bytes serial._decoder holds
    readCall,         \* the readUntil call in progress or just returned
    lastOp,           \* the last other serial call and what it returned
    tx,               \* the bytes the last call handed to the device, in order
    attached          \* the configuration calls that reached the device or
                      \* the console

vars == <<refs, allSprites, spriteNextId, flags, millis, cachedRender,
          initializers, frameHandlers, pc, tick, crashed, threw,
          everDestroyed, nextObj, idLog, initLog, ran, gen90, draws, lastDraw,
          everSorted, lastRet, sinceDiag, lastAdd, deltaLog, handledTicks,
          sortPending, foreverHandlers, foreverTicks, device, now, rxBuffer,
          rxCount, decoderBuf, readCall, lastOp, tx, attached>>

\* ---- Scene fields ---------------------------------------------------------
\* the fields the constructor assigns
ConstructedRefs == {"eventContext", "flags", "physicsEngine", "camera",
                    "background", "destroyedHandlers", "createdHandlers",
                    "overlapHandlers", "overlapMap", "collisionHandlers",
                    "gameForeverHandlers", "spritesByKind",
                    "controlledSprites", "_data"}

\* the fields the constructor leaves undefined
UnsetRefs == {"tileMap", "allSprites", "spriteNextId", "particleSources",
              "followingSprites", "cachedRender"}

RefFields == ConstructedRefs \cup UnsetRefs

\* the fields destroy() assigns undefined
DestroyedRefs == {"eventContext", "background", "tileMap", "allSprites",
                  "spriteNextId", "spritesByKind", "physicsEngine", "camera",
                  "flags", "destroyedHandlers", "createdHandlers",
                  "overlapHandlers", "collisionHandlers",
                  "gameForeverHandlers", "_data"}

\* what the value variable of an undefined field holds
NoImage == [tick |-> 0, after90 |-> FALSE, gen |-> 0, k |-> 0]

\* ---- the event context's frame handler registry --------------------------
\* number of registered handlers that run before a new one of priority p:
\* lower priority first, equal priority in registration order
RECURSIVE InsertPos(_, _)
InsertPos(hs, p) ==
    IF hs = <<>> \/ Head(hs).priority > p THEN 0
    ELSE 1 + InsertPos(Tail(hs), p)

registerFrameHandler(hs, p, name) ==
    LET k == InsertPos(hs, p)
    IN SubSeq(hs, 1, k) \o <<[priority |-> p, name |-> name]>>
          \o SubSeq(hs, k + 1, Len(hs))

\* ---- Scene.init -----------------------------------------------------------
\* the handlers init() registers, in the order of its registerFrameHandler calls
FixedHandlersPhysicsLate ==
    << [priority |-> CONTROLLER_PRIORITY, name |-> "controller"],
       [priority |-> CONTROLLER_SPRITES_PRIORITY, name |-> "moveSprites"],
       [priority |-> RENDER_DIAGNOSTICS_PRIORITY, name |-> "physics"],
       [priority |-> RENDER_SPRITES_PRIORITY, name |-> "render"],
       [priority |-> RENDER_DIAGNOSTICS_PRIORITY, name |-> "diagnostics"],
       [priority |-> UPDATE_SCREEN_PRIORITY, name |-> "screen"] >>

FixedHandlers ==
    << [priority |-> CONTROLLER_PRIORITY, name |-> "controller"],
       [priority |-> CONTROLLER_SPRITES_PRIORITY, name |-> "moveSprites"],
       [priority |-> PHYSICS_PRIORITY, name |-> "physics"],
       [priority |-> RENDER_SPRITES_PRIORITY, name |-> "render"],
       [priority |-> RENDER_DIAGNOSTICS_PRIORITY, name |-> "diagnostics"],
       [priority |-> UPDATE_SCREEN_PRIORITY, name |-> "screen"] >>

FixedNames == {FixedHandlers[i].name : i \in DOMAIN FixedHandlers}

RECURSIVE RegisterAll(_, _)
RegisterAll(hs, new) ==
    IF new = <<>> THEN hs
    ELSE RegisterAll(registerFrameHandler(hs, Head(new).priority, Head(new).name),
                     Tail(new))

HasFixed(hs) ==
    \A n \in FixedNames : \E i \in DOMAIN hs : hs[i].name = n

\* the part of the state init() works on
SceneOfInit ==
    [refs |-> refs, allSprites |-> allSprites, spriteNextId |-> spriteNextId,
     frameHandlers |-> frameHandlers, initLog |-> initLog, threw |-> FALSE]

\* if (this.allSprites)
IsInitialized(s) == s.refs["allSprites"] # Undefined

RECURSIVE InitCall(_), RunInitializers(_, _)


\* one callback of Scene.initializers, given the scene
RunInitializer(s, i) ==
    LET kind == initializers[i]
        s1 == [s EXCEPT !.initLog = Append(@,
                  [index |-> i, of |-> Len(initializers),
                   kind |-> initializers[i],
                   fixed |-> HasFixed(s.frameHandlers)])]
    IN CASE kind = "follow" ->
              \* registers a frame handler between two fixed ones
              [s1 EXCEPT !.frameHandlers =
                  registerFrameHandler(@, FOLLOW_SPRITE_PRIORITY, "user14")]
         [] kind = "reinit" ->
              \* calls scene.init(), then registers a frame handler at the
              \* priority of a fixed one
              [InitCall(s1) EXCEPT !.frameHandlers =
                  registerFrameHandler(@, RENDER_SPRITES_PRIORITY, "user90")]

\* Scene.initializers.forEach(f => f(this)), from callback i on
RunInitializers(s, i) ==
    IF i > Len(initializers) THEN s
    ELSE RunInitializers(RunInitializer(s, i), i + 1)

\* Scene.initializers.forEach(...): the history notes its start, then every
\* callback it invokes
ForEachInitializer(s) ==
    RunInitializers(
        [s EXCEPT !.initLog = Append(@,
            [index |-> 0, of |-> Len(initializers), kind |-> "forEach",
             fixed |-> HasFixed(s.frameHandlers)])], 1)

\* this.allSprites = []; this.spriteNextId = 0
AllocateSprites(s) ==
    [s EXCEPT !.refs["allSprites"] = "set", !.allSprites = <<>>,
              !.refs["spriteNextId"] = "set", !.spriteNextId = 0]

\* init() past its guard; this.eventContext.registerFrameHandler throws on a
\* scene whose eventContext is undefined
InitBodyInitializersFirst(s) ==
    LET s1 == AllocateSprites(s)
    IN IF s.refs["eventContext"] = Undefined
       THEN [s1 EXCEPT !.threw = TRUE]
       ELSE LET s2 == ForEachInitializer(s1)
            IN [s2 EXCEPT !.frameHandlers = RegisterAll(@, FixedHandlers)]

InitBody(s) ==
    LET s1 == AllocateSprites(s)
    IN IF s.refs["eventContext"] = Undefined
       THEN [s1 EXCEPT !.threw = TRUE]
       ELSE ForEachInitializer(
               [s1 EXCEPT !.frameHandlers = RegisterAll(@, FixedHandlers)])

\* init()
InitCallLateGuard(s) ==
    IF IsInitialized(s) THEN AllocateSprites(s) ELSE InitBody(s)

InitCall(s) ==
    IF IsInitialized(s) THEN s ELSE InitBody(s)

\* ---- Scene.renderCore -----------------------------------------------------
\* function (a, b) { return a.z - b.z || a.id - b.id; }
SortCompareZOnly(a, b) == a.z - b.z

SortCompare(a, b) ==
    IF a.z - b.z # 0 THEN a.z - b.z ELSE a.id - b.id

RECURSIVE InsertSorted(_, _)
InsertSorted(sorted, x) ==
    IF sorted = <<>> THEN <<x>>
    ELSE IF SortCompare(x, Head(sorted)) < 0 THEN <<x>> \o sorted
    ELSE <<Head(sorted)>> \o InsertSorted(Tail(sorted), x)

RECURSIVE ArraySort(_)
ArraySort(xs) ==
    IF xs = <<>> THEN <<>>
    ELSE InsertSorted(ArraySort(SubSeq(xs, 1, Len(xs) - 1)), xs[Len(xs)])

\* the outcome of renderCore: whether it threw, the sprite list it leaves, the
\* sprites it drew in order
RenderCoreAlwaysSorts ==
    IF refs["background"] = Undefined \/ refs["allSprites"] = Undefined
    THEN [ok |-> FALSE, sprites |-> allSprites, sorted |-> FALSE]
    ELSE [ok |-> TRUE, sprites |-> ArraySort(allSprites), sorted |-> TRUE]

RenderCore ==
    IF refs["background"] = Undefined \/ refs["allSprites"] = Undefined
    THEN [ok |-> FALSE, sprites |-> allSprites, sorted |-> FALSE]
    ELSE LET sort == (flags \div NeedsSorting) % 2 = 1
         IN [ok |-> TRUE,
             sprites |-> IF sort THEN ArraySort(allSprites) ELSE allSprites,
             sorted |-> sort]

\* the render cache after this.cachedRender = undefined of the render handler
CacheKeptByHandler == [ref |-> refs["cachedRender"], img |-> cachedRender]

CacheAfterHandler == [ref |-> Undefined, img |-> NoImage]

\* the render cache after this.cachedRender = screen.clone() of render()
CacheNotStored(img) == [ref |-> refs["cachedRender"], img |-> cachedRender]

CacheAfterRender(img) == [ref |-> "set", img |-> img]

\* this.flags = 0 of the diagnostics handler
FlagsKept == flags

ClearedFlags == 0

\* the history variables before the first core draw and the first render()
NoDraw == [done |-> FALSE, order |-> <<>>, before |-> <<>>, flags |-> 0]

NoReturn == [done |-> FALSE, img |-> NoImage, gen |-> 0, tick |-> 0,
             after90 |-> FALSE, drew |-> FALSE]

NoDraws == [handler |-> 0, before |-> 0, after |-> 0]

\* ---- the serial namespace's state ------------------------------------------
\* export let NEW_LINE = "\r\n"
NEW_LINE_LF == <<"\n">>

NEW_LINE == <<"\r", "\n">>

\* DAL.DEVICE_NOT_SUPPORTED, an error code: "Negative if error, 0 if no data"
DEVICE_NOT_SUPPORTED == -1002

\* Delimiters.NewLine, a character code
NewLine == 10

\* what a call that returns nothing returns, and what a call returns
NoValue == [kind |-> "void", number |-> 0, text |-> <<>>, bytes |-> <<>>]
NumberValue(n) == [NoValue EXCEPT !.kind = "number", !.number = n]
TextValue(t) == [NoValue EXCEPT !.kind = "string", !.text = t]
BufferValue(b) == [NoValue EXCEPT !.kind = "buffer", !.bytes = b]

NoOp == [op |-> "none", text |-> <<>>, value |-> 0, ret |-> NoValue]

\* no readUntil call: pc is where the call is, hasTimeOut and timeOut its
\* argument, start its local; the history: the polls and pauses it has made,
\* the bytes its decoder has held, whether they held the delimiter before the
\* timeout had elapsed, whether it returned by giving up
NoCall == [pc |-> "idle", hasTimeOut |-> FALSE, timeOut |-> 0, start |-> 0,
           polls |-> 0, pauses |-> 0, heard |-> <<>>, inTime |-> FALSE,
           gaveUp |-> FALSE, ret |-> NoValue]

SerialVars == <<device, now, rxBuffer, rxCount, decoderBuf, readCall, lastOp,
                tx, attached>>

\* the namespace after its module is loaded, with or without a device
InitSerial(dev) ==
    /\ device = dev
    /\ now = 0
    /\ rxBuffer = <<>>
    /\ rxCount = 0
    /\ decoderBuf = <<>>
    /\ readCall = NoCall
    /\ lastOp = NoOp
    /\ tx = <<>>
    /\ attached = {}

\* ---- initial state: a constructed scene ----------------------------------
InitScene ==
    /\ refs = [f \in RefFields |-> IF f \in ConstructedRefs THEN "set" ELSE Undefined]
    /\ allSprites = <<>>
    /\ spriteNextId = 0
    /\ flags = 0
    /\ millis = 0
    /\ cachedRender = NoImage
    /\ initializers = <<>>
    /\ frameHandlers = <<>>
    /\ pc = 0
    /\ tick = 0
    /\ crashed = FALSE
    /\ threw = FALSE
    /\ everDestroyed = FALSE
    /\ nextObj = 0
    /\ lastAdd = "none"
    /\ idLog = <<>>
    /\ initLog = <<>>
    /\ ran = <<>>
    /\ gen90 = 0
    /\ draws = NoDraws
    /\ lastDraw = NoDraw
    /\ everSorted = FALSE
    /\ lastRet = NoReturn
    /\ sinceDiag = "nodiag"
    /\ deltaLog = <<>>
    /\ handledTicks = 0
    /\ sortPending = FALSE
    /\ foreverHandlers = <<>>
    /\ foreverTicks = 0

Init == InitScene /\ InitSerial(TRUE)

\* the render frame handler has run in the current frame
After90 == \E i \in DOMAIN ran : ran[i].name = "render"

\* the program is running: no exception has reached the event context
Running == ~crashed

FieldVars == <<refs, allSprites, spriteNextId, flags, millis, cachedRender>>
TickVars == <<pc, tick, crashed, ran, gen90>>
LogVars == <<nextObj, idLog, initLog, everDestroyed, lastAdd>>
ClockLog == <<deltaLog, handledTicks>>
ForeverVars == <<foreverHandlers, foreverTicks>>
SceneVars == <<refs, allSprites, spriteNextId, flags, millis, cachedRender,
               initializers, frameHandlers, pc, tick, crashed, threw,
               everDestroyed, nextObj, idLog, initLog, ran, gen90, draws,
               lastDraw, everSorted, lastRet, sinceDiag, lastAdd, deltaLog,
               handledTicks, sortPending>>

\* ---- calls into the scene by other code -----------------------------------
\* Scene.initializers.push(f), while the program's modules are set up: before
\* the first tick and before the scene is initialized
RegisterInitializer(kind) ==
    /\ Running
    /\ tick = 0
    /\ refs["allSprites"] = Undefined
    /\ Len(initializers) < MaxInitializers
    /\ initializers' = Append(initializers, kind)
    /\ lastDraw' = NoDraw
    /\ UNCHANGED <<SerialVars, ForeverVars, sortPending, ClockLog, FieldVars, TickVars, LogVars, frameHandlers, threw, draws,
                   everSorted, lastRet, sinceDiag>>

\* scene.init()
CallInit ==
    /\ Running
    /\ LET s == InitCall(SceneOfInit)
       IN /\ refs' = s.refs
          /\ allSprites' = s.allSprites
          /\ spriteNextId' = s.spriteNextId
          /\ frameHandlers' = s.frameHandlers
          /\ initLog' = s.initLog
          /\ threw' = s.threw
    /\ lastDraw' = NoDraw
    /\ UNCHANGED <<SerialVars, ForeverVars, sortPending, ClockLog, flags, millis, cachedRender, TickVars, initializers,
                   nextObj, idLog, everDestroyed, lastAdd, draws, everSorted,
                   lastRet, sinceDiag>>

\* this.allSprites.push(sprite); sprite.id = this.spriteNextId++
AddSpritePreIncrement(sprites, nextId, sprite) ==
    [allSprites |-> Append(sprites, [sprite EXCEPT !.id = nextId + 1]),
     id |-> nextId + 1,
     spriteNextId |-> nextId + 1]

AddSpriteCall(sprites, nextId, sprite) ==
    [allSprites |-> Append(sprites, [sprite EXCEPT !.id = nextId]),
     id |-> nextId,
     spriteNextId |-> nextId + 1]

\* this.allSprites.push throws on a scene that has no sprite list
AddSpriteNeverThrows == FALSE

AddSpriteThrows == refs["allSprites"] = Undefined

\* scene.addSprite(sprite), sprite a new object with the given z
CallAddSprite(z) ==
    /\ Running
    /\ nextObj < MaxSprites
    /\ IF AddSpriteThrows
       THEN /\ threw' = TRUE
            /\ lastAdd' = "threw"
            /\ UNCHANGED <<allSprites, spriteNextId, nextObj, idLog>>
       ELSE LET r == AddSpriteCall(allSprites, spriteNextId,
                                   [obj |-> nextObj + 1, id |-> 0, z |-> z])
            IN /\ allSprites' = r.allSprites
               /\ spriteNextId' = r.spriteNextId
               /\ idLog' = Append(idLog, r.id)
               /\ nextObj' = nextObj + 1
               /\ lastAdd' = "ok"
               /\ threw' = FALSE
    /\ lastDraw' = NoDraw
    /\ UNCHANGED <<SerialVars, ForeverVars, sortPending, ClockLog, refs, flags, millis, cachedRender, TickVars, initializers,
                   frameHandlers, initLog, everDestroyed, draws, everSorted,
                   lastRet, sinceDiag>>

\* sprite.z = z, by other code
SetZ(i, z) ==
    /\ Running
    /\ i \in DOMAIN allSprites
    /\ allSprites[i].z # z
    /\ allSprites' = [allSprites EXCEPT ![i].z = z]
    /\ lastDraw' = NoDraw
    /\ UNCHANGED <<SerialVars, ForeverVars, sortPending, ClockLog, refs, spriteNextId, flags, millis, cachedRender, TickVars,
                   LogVars, initializers, frameHandlers, threw, draws,
                   everSorted, lastRet, sinceDiag>>

\* scene.flags |= Flag.NeedsSorting
OrNeedsSorting ==
    /\ Running
    /\ flags' = NeedsSorting
    /\ refs' = [refs EXCEPT !["flags"] = "set"]
    /\ sinceDiag' = IF sinceDiag = "clean" THEN "dirty" ELSE sinceDiag
    /\ lastDraw' = NoDraw
    /\ UNCHANGED <<SerialVars, ForeverVars, ClockLog, allSprites, spriteNextId, millis, cachedRender, TickVars,
                   LogVars, initializers, frameHandlers, threw, draws,
                   everSorted, lastRet>>

\* scene.flags |= Flag.NeedsSorting, by other code, when it changes flags
SetNeedsSorting ==
    /\ flags # NeedsSorting
    /\ OrNeedsSorting
    /\ UNCHANGED sortPending

\* scene.flags |= Flag.NeedsSorting, by other code that wants allSprites
\* sorted: the history notes the request, also when the flag is still set
RequestSort ==
    /\ flags # NeedsSorting \/ ~sortPending
    /\ OrNeedsSorting
    /\ sortPending' = TRUE

\* the history of one complete core draw
DrawRecord(r) ==
    [done |-> TRUE, order |-> r.sprites, before |-> allSprites,
     flags |-> flags]

\* screen.clone() after a core draw by render()
NewImage ==
    [tick |-> tick, after90 |-> After90, gen |-> gen90,
     k |-> 1 + (IF After90 THEN draws.after ELSE draws.before)]

ReturnOf(img, drew) ==
    [done |-> TRUE, img |-> img, gen |-> gen90, tick |-> tick,
     after90 |-> After90, drew |-> drew]

\* scene.render()
CallRender ==
    /\ Running
    /\ IF refs["cachedRender"] # Undefined
       THEN /\ lastRet' = ReturnOf(cachedRender, FALSE)
            /\ threw' = FALSE
            /\ lastDraw' = NoDraw
            /\ UNCHANGED <<refs, cachedRender, allSprites, draws, everSorted,
                           sortPending>>
       ELSE LET r == RenderCore
            IN IF r.ok
               THEN /\ allSprites' = r.sprites
                    /\ cachedRender' = CacheAfterRender(NewImage).img
                    /\ refs' = [refs EXCEPT !["cachedRender"] =
                                    CacheAfterRender(NewImage).ref]
                    /\ lastRet' = ReturnOf(NewImage, TRUE)
                    /\ draws' = IF After90
                                THEN [draws EXCEPT !.after = @ + 1]
                                ELSE [draws EXCEPT !.before = @ + 1]
                    /\ lastDraw' = DrawRecord(r)
                    /\ everSorted' = (everSorted \/ r.sorted)
                    /\ sortPending' = (sortPending /\ ~r.sorted)
                    /\ threw' = FALSE
               ELSE /\ threw' = TRUE
                    /\ lastDraw' = NoDraw
                    /\ UNCHANGED <<refs, cachedRender, allSprites, lastRet,
                                   draws, everSorted, sortPending>>
    /\ UNCHANGED <<SerialVars, ForeverVars, ClockLog, spriteNextId, flags, millis, TickVars, LogVars,
                   initializers, frameHandlers, sinceDiag>>

\* scene.destroy()
CallDestroy ==
    /\ Running
    /\ refs' = [f \in RefFields |-> IF f \in DestroyedRefs THEN Undefined ELSE refs[f]]
    /\ allSprites' = <<>>
    /\ spriteNextId' = 0
    /\ flags' = 0
    /\ everDestroyed' = TRUE
    /\ threw' = FALSE
    /\ lastDraw' = NoDraw
    /\ UNCHANGED <<SerialVars, ForeverVars, sortPending, ClockLog, millis, cachedRender, TickVars, initializers, frameHandlers,
                   nextObj, idLog, initLog, lastAdd, draws, everSorted,
                   lastRet, sinceDiag>>

\* ---- the event context's tick ----------------------------------------------
\* the event context starts a frame: it runs its frame handlers in order
TickStart ==
    /\ Running
    /\ pc = 0
    /\ tick < MaxTicks
    /\ tick' = tick + 1
    /\ pc' = IF frameHandlers = <<>> THEN 0 ELSE 1
    /\ handledTicks' = IF frameHandlers = <<>> THEN handledTicks
                                               ELSE handledTicks + 1
    /\ UNCHANGED deltaLog
    /\ ran' = <<>>
    /\ draws' = NoDraws
    /\ lastDraw' = NoDraw
    /\ UNCHANGED <<SerialVars, ForeverVars, sortPending, FieldVars, LogVars, initializers, frameHandlers, crashed,
                   gen90, threw, everSorted, lastRet, sinceDiag>>

\* the event context is about to run the frame handler of this name
NextHandlerIs(name) ==
    /\ Running
    /\ pc \in DOMAIN frameHandlers
    /\ frameHandlers[pc].name = name

\* the handler returned: the event context goes on to the next one, if any
Returned ==
    /\ pc' = IF pc = Len(frameHandlers) THEN 0 ELSE pc + 1
    /\ ran' = Append(ran, frameHandlers[pc])
    /\ crashed' = FALSE

\* the handler threw: the exception leaves the frame loop
Threw ==
    /\ crashed' = TRUE
    /\ UNCHANGED <<pc, ran>>

\* this._millis += this.eventContext.deltaTimeMillis
AdvanceMillisAssigns(elapsed, deltaTimeMillis) == deltaTimeMillis

AdvanceMillis(elapsed, deltaTimeMillis) == elapsed + deltaTimeMillis

\* priority 8: this._millis += this.eventContext.deltaTimeMillis; controller.__update
ControllerHandler(deltaTimeMillis) ==
    /\ NextHandlerIs("controller")
    /\ IF refs["eventContext"] = Undefined
       THEN Threw /\ UNCHANGED <<millis, deltaLog>>
       ELSE /\ Returned
            /\ millis' = AdvanceMillis(millis, deltaTimeMillis)
            /\ deltaLog' = Append(deltaLog, deltaTimeMillis)
    /\ UNCHANGED handledTicks
    /\ lastDraw' = NoDraw
    /\ UNCHANGED <<SerialVars, ForeverVars, sortPending, refs, allSprites, spriteNextId, flags, cachedRender, tick,
                   gen90, LogVars, initializers, frameHandlers, threw, draws,
                   everSorted, lastRet, sinceDiag>>

\* priority 13: controller._moveSprites
MoveSpritesHandler ==
    /\ NextHandlerIs("moveSprites")
    /\ Returned
    /\ lastDraw' = NoDraw
    /\ UNCHANGED <<SerialVars, ForeverVars, sortPending, ClockLog, FieldVars, tick, gen90, LogVars, initializers,
                   frameHandlers, threw, draws, everSorted, lastRet, sinceDiag>>

\* priority 15: physicsEngine.move, camera.update, every sprite's __update
PhysicsHandler ==
    /\ NextHandlerIs("physics")
    /\ IF refs["eventContext"] = Undefined \/ refs["physicsEngine"] = Undefined
          \/ refs["camera"] = Undefined \/ refs["allSprites"] = Undefined
       THEN Threw
       ELSE Returned
    /\ lastDraw' = NoDraw
    /\ UNCHANGED <<SerialVars, ForeverVars, sortPending, ClockLog, FieldVars, tick, gen90, LogVars, initializers,
                   frameHandlers, threw, draws, everSorted, lastRet, sinceDiag>>

\* priority 90: this.cachedRender = undefined; this.renderCore()
RenderHandler ==
    /\ NextHandlerIs("render")
    /\ cachedRender' = CacheAfterHandler.img
    /\ refs' = [refs EXCEPT !["cachedRender"] = CacheAfterHandler.ref]
    /\ gen90' = gen90 + 1
    /\ lastRet' = NoReturn
    /\ LET r == RenderCore
       IN IF r.ok
          THEN /\ Returned
               /\ allSprites' = r.sprites
               /\ draws' = [draws EXCEPT !.handler = @ + 1]
               /\ lastDraw' = DrawRecord(r)
               /\ everSorted' = (everSorted \/ r.sorted)
               /\ sortPending' = (sortPending /\ ~r.sorted)
          ELSE /\ Threw
               /\ lastDraw' = NoDraw
               /\ UNCHANGED <<allSprites, draws, everSorted, sortPending>>
    /\ UNCHANGED <<SerialVars, ForeverVars, ClockLog, spriteNextId, flags, millis, tick, LogVars, initializers,
                   frameHandlers, threw, sinceDiag>>

\* priority 150: stats, physics debug draw, console overlay, this.flags = 0
DiagnosticsHandler(stats, debug) ==
    /\ NextHandlerIs("diagnostics")
    /\ IF \/ stats /\ refs["allSprites"] = Undefined
          \/ debug /\ refs["physicsEngine"] = Undefined
       THEN Threw /\ UNCHANGED <<refs, flags, sinceDiag>>
       ELSE /\ Returned
            /\ flags' = ClearedFlags
            /\ refs' = [refs EXCEPT !["flags"] = "set"]
            /\ sinceDiag' = "clean"
    /\ lastDraw' = NoDraw
    /\ UNCHANGED <<SerialVars, ForeverVars, sortPending, ClockLog, allSprites, spriteNextId, millis, cachedRender, tick, gen90,
                   LogVars, initializers, frameHandlers, threw, draws,
                   everSorted, lastRet>>

\* priority 200: control.__screen.update
ScreenHandler ==
    /\ NextHandlerIs("screen")
    /\ Returned
    /\ lastDraw' = NoDraw
    /\ UNCHANGED <<SerialVars, ForeverVars, sortPending, ClockLog, FieldVars, tick, gen90, LogVars, initializers,
                   frameHandlers, threw, draws, everSorted, lastRet, sinceDiag>>

\* a frame handler that an initializer registered; what it does to the scene
\* is one of the calls above
UserHandler ==
    /\ \/ NextHandlerIs("user14")
       \/ NextHandlerIs("user90")
    /\ Returned
    /\ lastDraw' = NoDraw
    /\ UNCHANGED <<SerialVars, ForeverVars, sortPending, ClockLog, FieldVars, tick, gen90, LogVars, initializers,
                   frameHandlers, threw, draws, everSorted, lastRet, sinceDiag>>

\* the scene from its construction on, as long as it is not destroyed
Next ==
    \/ \E kind \in InitializerKinds : RegisterInitializer(kind)
    \/ CallInit
    \/ \E z \in ZValues : CallAddSprite(z)
    \/ \E i \in 1..MaxSprites, z \in ZValues : SetZ(i, z)
    \/ SetNeedsSorting
    \/ CallRender
    \/ TickStart
    \/ \E delta \in Deltas : ControllerHandler(delta)
    \/ MoveSpritesHandler
    \/ PhysicsHandler
    \/ RenderHandler
    \/ \E stats \in BOOLEAN, debug \in BOOLEAN : DiagnosticsHandler(stats, debug)
    \/ ScreenHandler
    \/ UserHandler

Spec == Init /\ [][Next]_vars

\* the scene with its teardown
NextLife ==
    \/ Next
    \/ CallDestroy

Life == Init /\ [][NextLife]_vars

\* the scene clock: the calls and frame handlers of a scene whose event context
\* reports frame times of several lengths
NextClock ==
    \/ CallInit
    \/ CallAddSprite(0)
    \/ CallRender
    \/ CallDestroy
    \/ TickStart
    \/ \E delta \in FrameDeltas : ControllerHandler(delta)
    \/ MoveSpritesHandler
    \/ PhysicsHandler
    \/ RenderHandler
    \/ \E stats \in BOOLEAN, debug \in BOOLEAN : DiagnosticsHandler(stats, debug)
    \/ ScreenHandler

Clock == Init /\ [][NextClock]_vars

\* the scene with the history of its sort requests
NextSorting ==
    \/ CallInit
    \/ \E z \in ZValues : CallAddSprite(z)
    \/ \E i \in 1..MaxSprites, z \in ZValues : SetZ(i, z)
    \/ RequestSort
    \/ CallRender
    \/ TickStart
    \/ \E delta \in Deltas : ControllerHandler(delta)
    \/ MoveSpritesHandler
    \/ PhysicsHandler
    \/ RenderHandler
    \/ \E stats \in BOOLEAN, debug \in BOOLEAN : DiagnosticsHandler(stats, debug)
    \/ ScreenHandler

Sorting == Init /\ [][NextSorting]_vars

\* ---- the forever loops ------------------------------------------------------
\* new GameForeverHandler(handler): the constructor sets the handler and leaves
\* lock undefined, which a test of the lock reads as not set
LockOfNewHeld == TRUE

LockOfNew == FALSE

\* the entry of a forever loop: its lock, the number of invocations of its
\* body in progress, the suspensions its body still has before it completes,
\* and what its last tick found and did
NewForeverHandler ==
    [lock |-> LockOfNew, inProgress |-> 0, pausesLeft |-> 0,
     ticked |-> FALSE, wasBusy |-> FALSE, started |-> FALSE]

\* game.forever(handler): scene.gameForeverHandlers.push(new GameForeverHandler(handler))
RegisterForever ==
    /\ Len(foreverHandlers) < MaxForever
    /\ foreverHandlers' = Append(foreverHandlers, NewForeverHandler)
    /\ UNCHANGED <<foreverTicks, SceneVars, SerialVars>>

\* a tick arrives at one entry: skipped if the lock is set, else the lock is
\* set and the body is started; pauses is the number of times this run of the
\* body suspends
TickForeverNoLockTest(fh, pauses) ==
    [fh EXCEPT !.lock = TRUE, !.inProgress = @ + 1, !.pausesLeft = pauses,
               !.ticked = TRUE, !.wasBusy = (fh.inProgress > 0),
               !.started = TRUE]

TickForever(fh, pauses) ==
    IF fh.lock
    THEN [fh EXCEPT !.ticked = TRUE, !.wasBusy = (fh.inProgress > 0),
                    !.started = FALSE]
    ELSE [fh EXCEPT !.lock = TRUE, !.inProgress = @ + 1,
                    !.pausesLeft = pauses, !.ticked = TRUE,
                    !.wasBusy = (fh.inProgress > 0), !.started = TRUE]

\* a tick arrives: every entry is visited
ForeverTick ==
    /\ foreverTicks < MaxTicks
    /\ foreverTicks' = foreverTicks + 1
    /\ \E pauses \in [DOMAIN foreverHandlers -> 0..MaxPauses] :
          foreverHandlers' =
              [h \in DOMAIN foreverHandlers |->
                  TickForever(foreverHandlers[h], pauses[h])]
    /\ UNCHANGED <<SceneVars, SerialVars>>

\* the suspended body of entry h resumes and runs to its next suspension
BodyResumes(h) ==
    /\ h \in DOMAIN foreverHandlers
    /\ foreverHandlers[h].inProgress > 0
    /\ foreverHandlers[h].pausesLeft > 0
    /\ foreverHandlers' = [foreverHandlers EXCEPT ![h].pausesLeft = @ - 1]
    /\ UNCHANGED <<foreverTicks, SceneVars, SerialVars>>

\* the body of entry h completes: the lock is cleared
BodyCompletes(h) ==
    /\ h \in DOMAIN foreverHandlers
    /\ foreverHandlers[h].inProgress > 0
    /\ foreverHandlers[h].pausesLeft = 0
    /\ foreverHandlers' = [foreverHandlers EXCEPT ![h].inProgress = @ - 1,
                                                  ![h].lock = FALSE]
    /\ UNCHANGED <<foreverTicks, SceneVars, SerialVars>>

NextForever ==
    \/ RegisterForever
    \/ ForeverTick
    \/ \E h \in 1..MaxForever : BodyResumes(h)
    \/ \E h \in 1..MaxForever : BodyCompletes(h)

Forever == Init /\ [][NextForever]_vars

\* ---- serial: text output -----------------------------------------------------
\* the characters of the texts written, each a string naming one character
DigitChars == <<"0", "1", "2", "3", "4", "5", "6", "7", "8", "9">>

\* the texts, names and numbers the calls are made with
Texts == {<<>>, <<"x">>, <<"U+00E9", "x">>}
Names == {<<>>, <<"x">>, <<"x", "U+00E9">>}
Values == {0, 5, 21, -3}

\* value.toString() of an integer: its decimal digits, "-" first if negative
RECURSIVE DigitsOf(_)
DigitsOf(n) ==
    IF n < 10 THEN <<DigitChars[n + 1]>>
    ELSE DigitsOf(n \div 10) \o <<DigitChars[(n % 10) + 1]>>

toString(value) ==
    IF value < 0 THEN <<"-">> \o DigitsOf(0 - value) ELSE DigitsOf(value)

\* the UTF-8 bytes of one character
Utf8Of(c) ==
    CASE c = "\r" -> <<13>>
      [] c = "\n" -> <<10>>
      [] c = "-" -> <<45>>
      [] c = ":" -> <<58>>
      [] c = "x" -> <<120>>
      [] c = "U+00E9" -> <<195, 169>>
      [] OTHER -> <<47 + CHOOSE d \in 1..10 : DigitChars[d] = c>>

\* control.createBufferFromUTF8(text)
RECURSIVE createBufferFromUTF8(_)
createBufferFromUTF8(text) ==
    IF text = <<>> THEN <<>>
    ELSE Utf8Of(Head(text)) \o createBufferFromUTF8(Tail(text))

\* serial.writeBuffer(buffer), given what the device was handed so far:
\* if (!ser) return; ser.writeBuffer(buffer)
writeBuffer(out, buffer) ==
    IF ~device THEN out ELSE out \o buffer

\* serial.writeString(text)
writeString(out, text) == writeBuffer(out, createBufferFromUTF8(text))

\* serial.writeLine(text)
writeLine(out, text) == writeString(writeString(out, text), NEW_LINE)

\* serial.writeNumber(value)
writeNumber(out, value) == writeString(out, toString(value))

\* serial.writeValue(name, value); an empty name is falsy
writeValueAlwaysNamed(out, name, value) ==
    writeString(writeNumber(writeString(writeString(out, name), <<":">>), value),
                NEW_LINE)

writeValue(out, name, value) ==
    LET named == IF name # <<>>
                 THEN writeString(writeString(out, name), <<":">>)
                 ELSE out
    IN writeString(writeNumber(named, value), NEW_LINE)

\* no readUntil call is in progress
NotReading == readCall.pc \in {"idle", "done"}

\* a call that writes: the history notes the call and what the device got
Wrote(op, text, value, out) ==
    /\ NotReading
    /\ lastOp' = [op |-> op, text |-> text, value |-> value, ret |-> NoValue]
    /\ tx' = out
    /\ readCall' = NoCall
    /\ UNCHANGED <<device, now, rxBuffer, rxCount, decoderBuf, attached,
                   SceneVars, ForeverVars>>

CallWriteString(text) == Wrote("writeString", text, 0, writeString(<<>>, text))

CallWriteLine(text) == Wrote("writeLine", text, 0, writeLine(<<>>, text))

CallWriteNumber(value) ==
    Wrote("writeNumber", <<>>, value, writeNumber(<<>>, value))

CallWriteValue(name, value) ==
    Wrote("writeValue", name, value, writeValue(<<>>, name, value))

\* ---- serial: configuration and input ------------------------------------------
\* the bytes the transport delivers: a letter and the line feed
RxBytes == {97, NewLine}

\* the timeouts readUntil is called with, and how long a pause(1) takes
TimeOuts == {0, 1, 2}
PauseLengths == {1, 2}

\* setRxBufferSize, setTxBufferSize, setBaudRate, redirect, onEvent and
\* attachToConsole: if (!ser) return; then the call on the device (the console)
ConfigOps == {"setRxBufferSize", "setTxBufferSize", "setBaudRate", "redirect",
              "onEvent", "attachToConsole"}

\* what a configuration call leaves registered with the device or the console
ConfigureAnyway(op) == {op}

Configure(op) == IF device THEN {op} ELSE {}

CallConfigure(op) ==
    /\ NotReading
    /\ op \in ConfigOps
    /\ attached' = Configure(op)
    /\ lastOp' = [op |-> op, text |-> <<>>, value |-> 0, ret |-> NoValue]
    /\ tx' = <<>>
    /\ readCall' = NoCall
    /\ UNCHANGED <<device, now, rxBuffer, rxCount, decoderBuf, SceneVars,
                   ForeverVars>>

\* the transport delivers a byte to the device
Receive(b) ==
    /\ device
    /\ rxCount < MaxRx
    /\ rxCount' = rxCount + 1
    /\ rxBuffer' = Append(rxBuffer, b)
    /\ UNCHANGED <<device, now, decoderBuf, readCall, lastOp, tx, attached,
                   SceneVars, ForeverVars>>

\* a call that reads and returns at once: the history notes what it returned
Read(op, ret, rx, dec) ==
    /\ NotReading
    /\ lastOp' = [op |-> op, text |-> <<>>, value |-> 0, ret |-> ret]
    /\ rxBuffer' = rx
    /\ decoderBuf' = dec
    /\ tx' = <<>>
    /\ readCall' = NoCall
    /\ UNCHANGED <<device, now, rxCount, attached, SceneVars, ForeverVars>>

\* serial.read(): the device's next byte, 0 if it has none; without a device
\* DAL.DEVICE_NOT_SUPPORTED
readWithoutDevice == DEVICE_NOT_SUPPORTED

CallRead ==
    IF device
    THEN IF rxBuffer = <<>>
         THEN Read("read", NumberValue(0), rxBuffer, decoderBuf)
         ELSE Read("read", NumberValue(Head(rxBuffer)), Tail(rxBuffer),
                   decoderBuf)
    ELSE Read("read", NumberValue(readWithoutDevice), rxBuffer, decoderBuf)

\* serial.readBuffer(): what the device has received; without a device
\* control.createBuffer(0)
readBuffer == IF device THEN rxBuffer ELSE <<>>

CallReadBuffer == Read("readBuffer", BufferValue(readBuffer), <<>>, decoderBuf)

\* the text of received bytes
RECURSIVE TextOf(_)
TextOf(bytes) ==
    IF bytes = <<>> THEN <<>>
    ELSE <<IF Head(bytes) = NewLine THEN "\n" ELSE "a">> \o TextOf(Tail(bytes))

\* serial.readString(): d.add(serial.readBuffer()); return d.decode()
CallReadString ==
    Read("readString", TextValue(TextOf(decoderBuf \o readBuffer)), <<>>, <<>>)

\* UTF8Decoder.decodeUntil(delimiter): the index of the first delimiter the
\* decoder holds, 0 if it holds none
FirstIndex(bytes, delimiter) ==
    IF \E i \in DOMAIN bytes : bytes[i] = delimiter
    THEN CHOOSE i \in DOMAIN bytes :
            /\ bytes[i] = delimiter
            /\ \A j \in 1..(i - 1) : bytes[j] # delimiter
    ELSE 0

\* one more poll or pause in the history, which counts up to MaxTime
OneMore(n) == IF n < MaxTime THEN n + 1 ELSE n

\* the time left to a call: control.millis() - start < timeOut, or no timeout
TimeLeftInclusive(c, t) == ~c.hasTimeOut \/ t - c.start <= c.timeOut

TimeLeft(c, t) == ~c.hasTimeOut \/ t - c.start < c.timeOut

\* serial.readUntil(delimiter, timeOut?) is called: const d = decoder();
\* const start = control.millis()
StartReadUntil(hasTimeOut, timeOut) ==
    /\ NotReading
    /\ hasTimeOut => now + timeOut + 2 <= MaxTime
    /\ ~hasTimeOut => timeOut = 0
    /\ readCall' =
          LET c == [NoCall EXCEPT !.pc = "loop", !.hasTimeOut = hasTimeOut,
                                  !.timeOut = timeOut, !.start = now,
                                  !.heard = decoderBuf]
          IN [c EXCEPT !.inTime = FirstIndex(decoderBuf, NewLine) > 0
                                     /\ TimeLeft(c, now)]
    /\ lastOp' = NoOp
    /\ tx' = <<>>
    /\ attached' = {}
    /\ UNCHANGED <<device, now, rxBuffer, rxCount, decoderBuf, SceneVars,
                   ForeverVars>>

\* the body of the loop up to its pause: const s = d.decodeUntil(delimiter);
\* if (s !== undefined) return s; const b = serial.readBuffer(); d.add(b)
ReadUntilPoll ==
    /\ readCall.pc = "loop"
    /\ LET i == FirstIndex(decoderBuf, NewLine)
       IN IF i > 0
          THEN /\ readCall' = [readCall EXCEPT !.pc = "done",
                       !.ret = TextValue(TextOf(SubSeq(decoderBuf, 1, i - 1)))]
               /\ decoderBuf' = SubSeq(decoderBuf, i + 1, Len(decoderBuf))
               /\ UNCHANGED rxBuffer
          ELSE /\ readCall' = [readCall EXCEPT !.pc = "pause",
                       !.polls = OneMore(@),
                       !.heard = @ \o readBuffer,
                       !.inTime = @ \/ (FirstIndex(readBuffer, NewLine) > 0
                                           /\ TimeLeft(readCall, now))]
               /\ decoderBuf' = decoderBuf \o readBuffer
               /\ rxBuffer' = <<>>
    /\ UNCHANGED <<device, now, rxCount, lastOp, tx, attached, SceneVars,
                   ForeverVars>>

\* pause(1), which takes length time units, and the test of the loop:
\* while (timeOut === undefined || (control.millis() - start < timeOut));
\* return ""
ReadUntilPause(length) ==
    /\ readCall.pc = "pause"
    /\ now' = IF now + length > MaxTime THEN MaxTime ELSE now + length
    /\ readCall' =
          IF TimeLeft(readCall, now')
          THEN [readCall EXCEPT !.pc = "loop", !.pauses = OneMore(@)]
          ELSE [readCall EXCEPT !.pc = "done", !.pauses = OneMore(@),
                                !.gaveUp = TRUE, !.ret = TextValue(<<>>)]
    /\ UNCHANGED <<device, rxBuffer, rxCount, decoderBuf, lastOp, tx, attached,
                   SceneVars, ForeverVars>>

\* the serial namespace, with and without a device
InitSerialAny == InitScene /\ \E dev \in BOOLEAN : InitSerial(dev)

NextSerial ==
    \/ \E text \in Texts : CallWriteString(text)
    \/ \E text \in Texts : CallWriteLine(text)
    \/ \E value \in Values : CallWriteNumber(value)
    \/ \E name \in Names, value \in Values : CallWriteValue(name, value)
    \/ \E op \in ConfigOps : CallConfigure(op)
    \/ \E b \in RxBytes : Receive(b)
    \/ CallRead
    \/ CallReadBuffer
    \/ CallReadString
    \/ \E timeOut \in TimeOuts : StartReadUntil(TRUE, timeOut)
    \/ StartReadUntil(FALSE, 0)
    \/ ReadUntilPoll
    \/ \E length \in PauseLengths : ReadUntilPause(length)

Serial == InitSerialAny /\ [][NextSerial]_vars

\* readUntil polling a device: a call in progress makes its next step, and a
\* pause ends
NextReading ==
    \/ \E b \in RxBytes : Receive(b)
    \/ CallReadString
    \/ \E timeOut \in TimeOuts : StartReadUntil(TRUE, timeOut)
    \/ StartReadUntil(FALSE, 0)
    \/ ReadUntilPoll
    \/ \E length \in PauseLengths : ReadUntilPause(length)

Reading ==
    /\ InitSerialAny
    /\ [][NextReading]_vars
    /\ WF_vars(ReadUntilPoll)
    /\ WF_vars(\E length \in PauseLengths : ReadUntilPause(length))

\* ---- properties -------------------------------------------------------------
\* the scene is initialized and has not been destroyed
Live == ~everDestroyed /\ refs["allSprites"] # Undefined

\* the event context has run all its frame handlers in the current frame
TickComplete == pc = 0 /\ ran # <<>>

\* the position of the frame handler of this name in a handler sequence, 0 if
\* it is not in it
Pos(hs, name) ==
    IF \E i \in DOMAIN hs : hs[i].name = name
    THEN CHOOSE i \in DOMAIN hs : hs[i].name = name
    ELSE 0

Count(hs, name) == Cardinality({i \in DOMAIN hs : hs[i].name = name})

\* C1: as long as the scene is not destroyed, the k-th addSprite call (k from
\* 0) assigns id k, whatever ticks, render() and init() calls come in between:
\* the ids are 0, 1, 2, ... in call order and none is assigned twice
SpriteIdsInCallOrder ==
    ~everDestroyed =>
        /\ \A k \in DOMAIN idLog : idLog[k] = k - 1
        /\ \A i \in DOMAIN allSprites : allSprites[i].id = allSprites[i].obj - 1
        /\ \A i, j \in DOMAIN idLog : idLog[i] = idLog[j] => i = j

SpriteIdsWitness ==
    /\ Len(idLog) >= 2
    /\ idLog[Len(idLog)] = Len(idLog) - 1
    /\ gen90 >= 1
    /\ lastRet.done

\* the priority table of the fixed frame handlers
TablePriority ==
    [controller |-> 8, moveSprites |-> 13, physics |-> 15, render |-> 90,
     diagnostics |-> 150, screen |-> 200]

\* in the handlers run so far, handler b has run only after handler a
RanBefore(a, b) ==
    \A i \in DOMAIN ran :
        ran[i].name = b => \E j \in 1..(i - 1) : ran[j].name = a

\* C2: in every tick of an initialized scene each registered frame handler
\* runs exactly once, in ascending priority order, the fixed ones at 8, 13,
\* 15, 90, 150, 200: a handler starts only after all handlers of lower
\* priority have run, so physics is over before render and render before the
\* screen flush
HandlersRunInPriorityOrder ==
    Live =>
        /\ \A i \in 1..(Len(ran) - 1) : ran[i].priority <= ran[i + 1].priority
        /\ \A i \in DOMAIN ran :
              ran[i].name \in FixedNames =>
                  ran[i].priority = TablePriority[ran[i].name]
        /\ RanBefore("controller", "moveSprites")
        /\ RanBefore("moveSprites", "physics")
        /\ RanBefore("physics", "render")
        /\ RanBefore("render", "diagnostics")
        /\ RanBefore("diagnostics", "screen")
        /\ pc > 0 => ran = SubSeq(frameHandlers, 1, pc - 1)
        /\ TickComplete =>
              /\ ran = frameHandlers
              /\ \A n \in FixedNames : Count(ran, n) = 1

HandlersRunWitness ==
    /\ TickComplete
    /\ tick >= 2
    /\ Len(ran) = 8
    /\ Pos(ran, "user14") > Pos(ran, "moveSprites")
    /\ Pos(ran, "user14") < Pos(ran, "physics")

\* C3: a render() call that follows another one with no run of the render
\* frame handler in between returns the same image and draws nothing, and an
\* image render() returns was never cached before the last run of the render
\* frame handler
RenderCachedWithinFrame ==
    [][ /\ (lastRet.done /\ lastRet'.done /\ lastRet' # lastRet) =>
              /\ lastRet'.img = lastRet.img
              /\ ~lastRet'.drew
              /\ ~lastDraw'.done
              /\ draws' = draws
        /\ lastRet'.done =>
              /\ lastRet'.gen = gen90'
              /\ lastRet'.img.gen = gen90' ]_vars

RenderCachedWitness ==
    /\ lastRet.done
    /\ ~lastRet.drew
    /\ gen90 >= 2
    /\ lastRet.img.gen = gen90

\* C4 as claimed: a tick contains exactly one core draw
OneCoreDrawPerTick ==
    (Live /\ TickComplete) => draws.handler + draws.before + draws.after = 1

\* C4: in every tick the render frame handler runs the core draw sequence
\* exactly once; render() runs it once more each time it finds no cached
\* image, which happens at most once before the handler and at most once
\* after it in a frame
HandlerDrawsOncePerTick ==
    Live =>
        /\ draws.handler = (IF After90 THEN 1 ELSE 0)
        /\ TickComplete => draws.handler = 1
        /\ draws.before <= 1
        /\ draws.after <= 1
        /\ ~After90 => draws.after = 0

HandlerDrawsWitness ==
    /\ Live
    /\ TickComplete
    /\ draws = [handler |-> 1, before |-> 1, after |-> 1]

\* C5 as claimed: an image drawn during a tick is returned by render() only
\* during that tick
ReturnedImageOfSameTick ==
    (lastRet.done /\ lastRet.img.tick >= 1) => lastRet.img.tick = lastRet.tick

\* C5: an image render() returns was drawn after the last run of the render
\* frame handler: a call after the handler of tick n returns an image drawn in
\* tick n after that handler, a call before the handler of tick n returns an
\* image drawn in tick n or in tick n - 1
ReturnedImageSinceLastHandler ==
    lastRet.done =>
        /\ lastRet.img.gen = lastRet.gen
        /\ lastRet.after90 =>
              lastRet.img.tick = lastRet.tick /\ lastRet.img.after90
        /\ ~lastRet.after90 =>
              \/ lastRet.img.tick = lastRet.tick /\ ~lastRet.img.after90
              \/ lastRet.img.tick = lastRet.tick - 1

ReturnedStaleImageWitness ==
    /\ lastRet.done
    /\ lastRet.tick >= 2
    /\ ~lastRet.after90
    /\ lastRet.img.tick = lastRet.tick - 1
    /\ lastRet.img.after90

\* ascending z, equal z by ascending id
SortedByZThenId(sprites) ==
    \A i, j \in DOMAIN sprites :
        i < j => \/ sprites[i].z < sprites[j].z
                 \/ sprites[i].z = sprites[j].z /\ sprites[i].id < sprites[j].id

SameMembers(a, b) ==
    /\ Len(a) = Len(b)
    /\ {a[i] : i \in DOMAIN a} = {b[i] : i \in DOMAIN b}

\* the order of the addSprite calls
InsertionOrder(sprites) ==
    \A i, j \in DOMAIN sprites : i < j => sprites[i].obj < sprites[j].obj

\* C6: a core draw that runs with NeedsSorting set draws the sprites in
\* ascending z order, equal z in ascending id order, and draws exactly the
\* sprites allSprites held before
SortedDrawOrder ==
    (lastDraw.done /\ lastDraw.flags = NeedsSorting) =>
        /\ SortedByZThenId(lastDraw.order)
        /\ SameMembers(lastDraw.order, lastDraw.before)
        /\ allSprites = lastDraw.order

SortedDrawWitness ==
    /\ lastDraw.done
    /\ lastDraw.flags = NeedsSorting
    /\ Len(lastDraw.order) >= 2
    /\ lastDraw.order # lastDraw.before
    /\ lastDraw.order[1].z = lastDraw.order[2].z

\* C7 as claimed: a core draw that runs with NeedsSorting not set draws the
\* sprites in insertion order
UnsortedDrawInInsertionOrder ==
    (lastDraw.done /\ lastDraw.flags # NeedsSorting) =>
        InsertionOrder(lastDraw.order)

\* C7: a core draw that runs with NeedsSorting not set draws the sprites in
\* the order allSprites has, which is insertion order as long as no earlier
\* core draw has run with the flag set
UnsortedDrawKeepsOrder ==
    (lastDraw.done /\ lastDraw.flags # NeedsSorting) =>
        /\ lastDraw.order = lastDraw.before
        /\ allSprites = lastDraw.before
        /\ ~everSorted => InsertionOrder(lastDraw.order)

UnsortedDrawWitness ==
    /\ lastDraw.done
    /\ lastDraw.flags # NeedsSorting
    /\ everSorted
    /\ Len(lastDraw.order) >= 2
    /\ ~InsertionOrder(lastDraw.order)

\* C8 as claimed: flags is 0 when the physics handler of a tick that follows
\* a diagnostics handler begins
FlagsClearAtPhysics ==
    (NextHandlerIs("physics") /\ sinceDiag # "nodiag") => flags = 0

\* C8: flags is 0 after the diagnostics handler of every tick and stays 0
\* until other code sets NeedsSorting; it is 0 when the physics handler of the
\* following tick begins if no other code has set NeedsSorting since
FlagsClearAfterDiagnostics ==
    ~everDestroyed =>
        /\ sinceDiag = "clean" => flags = 0 /\ refs["flags"] = "set"
        /\ (pc = 0 \/ pc > Pos(frameHandlers, "diagnostics")) /\ ran # <<>>
              /\ flags # 0 => sinceDiag = "dirty"

FlagsClearWitness ==
    /\ NextHandlerIs("physics")
    /\ sinceDiag = "clean"
    /\ tick >= 2
    /\ everSorted

\* C9: init() on an initialized scene changes nothing: every fixed frame
\* handler stays registered once, no initializer is invoked a second time, no
\* sprite leaves allSprites and the id counter is not reset
InitIdempotent ==
    Live =>
        /\ HasFixed(frameHandlers)
        /\ Len(frameHandlers) = Len(FixedHandlers) + Len(initLog) - 1
        /\ Cardinality({i \in DOMAIN frameHandlers :
                           frameHandlers[i].name \notin FixedNames})
              = Len(initLog) - 1
        /\ \A i, j \in DOMAIN initLog :
              initLog[i].index = initLog[j].index => i = j
        /\ Len(allSprites) = Len(idLog)
        /\ spriteNextId = Len(idLog)
        /\ refs["spriteNextId"] = "set"

InitIdempotentWitness ==
    /\ Live
    /\ \E i \in DOMAIN initLog : initLog[i].kind = "reinit"
    /\ Len(allSprites) >= 1
    /\ TickComplete

\* C10: the first init() invokes every callback of Scene.initializers once, in
\* registration order, after the fixed frame handlers are registered, so a
\* handler a callback registers at the priority of a fixed one runs after it
InitializersRunOnceInOrder ==
    Live =>
        /\ Len(initLog) >= 1
        /\ Len(initLog) = 1 + initLog[1].of
        /\ Len(initLog) <= 1 + Len(initializers)
        /\ \A i \in DOMAIN initLog :
              /\ initLog[i].index = i - 1
              /\ initLog[i].fixed
              /\ i > 1 => initLog[i].kind = initializers[i - 1]
        /\ \A i \in DOMAIN frameHandlers :
              frameHandlers[i].name = "user90" =>
                  Pos(frameHandlers, "render") \in 1..(i - 1)
        /\ \A i \in DOMAIN frameHandlers :
              frameHandlers[i].name = "user14" =>
                  /\ Pos(frameHandlers, "moveSprites") \in 1..(i - 1)
                  /\ Pos(frameHandlers, "physics") > i

InitializersRunWitness ==
    /\ Live
    /\ Len(initLog) = 3
    /\ initLog[2].kind = "reinit"
    /\ initLog[3].kind = "follow"
    /\ Pos(frameHandlers, "user90") = Pos(frameHandlers, "render") + 1

\* ---- the teardown -----------------------------------------------------------
\* the fields an empty scene has released: the event context, the background,
\* the tile map, the sprites, the id counter, the sprites by kind, the physics
\* engine, the camera, the flags, every handler list, the overlap map, the data
\* bag and the cached render
OwnedRefs == {"eventContext", "background", "tileMap", "allSprites",
              "spriteNextId", "spritesByKind", "physicsEngine", "camera",
              "flags", "destroyedHandlers", "createdHandlers",
              "overlapHandlers", "collisionHandlers", "gameForeverHandlers",
              "overlapMap", "_data", "cachedRender"}

\* C11 as claimed: destroy() returns without error in every state and leaves
\* every owned field of the scene released; a destroy() of a destroyed scene
\* changes no field
DestroyReleasesEveryField ==
    [][CallDestroy =>
          /\ ~threw'
          /\ \A f \in OwnedRefs : refs'[f] = Undefined
          /\ everDestroyed => refs' = refs ]_vars

\* C12 as claimed: once destroy() has been called, no call brings allSprites
\* back, gives a sprite an id or registers a frame handler
DestroyedStaysUnusable ==
    [][everDestroyed =>
          /\ refs'["allSprites"] = Undefined
          /\ idLog' = idLog
          /\ frameHandlers' = frameHandlers ]_vars

\* ---- the scene before init() --------------------------------------------------
\* C20: addSprite() on a constructed scene that init() has not initialized
\* fails and changes nothing: no id is assigned and no sprite list holds a
\* sprite as long as the scene is not initialized, and after a failed call the
\* first id a later init() lets addSprite assign is still 0
DormantUntilInit ==
    /\ refs["allSprites"] = Undefined =>
          /\ lastAdd # "ok"
          /\ idLog = <<>> /\ allSprites = <<>> /\ nextObj = 0
          /\ refs["spriteNextId"] = Undefined /\ spriteNextId = 0
    /\ lastAdd = "threw" =>
          /\ idLog = <<>> /\ allSprites = <<>>
          /\ refs["spriteNextId"] = "set" => spriteNextId = 0
    /\ idLog # <<>> => idLog[1] = 0

DormantWitness ==
    /\ lastAdd = "threw"
    /\ Live
    /\ spriteNextId = 0
    /\ tick >= 1

\* ---- the scene clock ----------------------------------------------------------
RECURSIVE SumOf(_)
SumOf(ds) == IF ds = <<>> THEN 0 ELSE Head(ds) + SumOf(Tail(ds))

\* the controller handler has run in the current frame
ControllerRan == \E i \in DOMAIN ran : ran[i].name = "controller"

\* C18: _millis is 0 at construction and is the sum of the frame times the
\* controller handler has read; the handler reads one in every tick of the
\* initialized scene, first of all handlers, and no other operation (init,
\* addSprite, render, another frame handler, destroy) changes _millis
MillisSumsFrameTimes ==
    /\ millis = SumOf(deltaLog)
    /\ Len(deltaLog) =
          (IF pc > 0 /\ ~ControllerRan THEN handledTicks - 1 ELSE handledTicks)
    /\ frameHandlers = <<>> => millis = 0

MillisWitness ==
    /\ TickComplete
    /\ tick >= 2
    /\ deltaLog = <<2, 1>>
    /\ millis = 3
    /\ refs["cachedRender"] = "set"
    /\ allSprites # <<>>

\* ---- sort requests ------------------------------------------------------------
\* C19 as claimed: whenever NeedsSorting is set, a core draw sorts allSprites
\* before the diagnostics handler next clears the flag: a request no draw has
\* served is still flagged
NoSortRequestLost ==
    sortPending => flags = NeedsSorting

\* ---- the forever loops' lock ---------------------------------------------------
\* C13: for every forever loop, a tick that finds its body in progress (lock
\* set) does not invoke the body, a tick that does not sets the lock and
\* invokes it, and the lock is cleared when the body completes: at most one
\* invocation of a body is in progress, the lock is set exactly while one is,
\* and the first tick after the body completes invokes it again
ForeverNoReentry ==
    \A h \in DOMAIN foreverHandlers :
        LET fh == foreverHandlers[h]
        IN /\ fh.inProgress <= 1
           /\ fh.lock = (fh.inProgress = 1)
           /\ fh.ticked => (fh.started = ~fh.wasBusy)

ForeverWitness ==
    /\ foreverTicks >= 2
    /\ Len(foreverHandlers) = 2
    /\ foreverHandlers[1].ticked /\ foreverHandlers[1].wasBusy
    /\ ~foreverHandlers[1].started
    /\ foreverHandlers[1].pausesLeft = 1
    /\ foreverHandlers[2].ticked /\ foreverHandlers[2].started
    /\ ~foreverHandlers[2].lock

\* ---- serial: text output --------------------------------------------------------
\* the text a byte sequence is the UTF-8 encoding of
RECURSIVE Utf8Decode(_)
Utf8Decode(bytes) ==
    IF bytes = <<>> THEN <<>>
    ELSE IF Head(bytes) >= 192
    THEN <<"U+00E9">> \o Utf8Decode(SubSeq(bytes, 3, Len(bytes)))
    ELSE LET b == Head(bytes)
             c == CASE b = 13 -> "\r"
                    [] b = 10 -> "\n"
                    [] b = 45 -> "-"
                    [] b = 58 -> ":"
                    [] b = 120 -> "x"
                    [] OTHER -> DigitChars[b - 47]
         IN <<c>> \o Utf8Decode(Tail(bytes))

IsDigit(c) == \E d \in 1..10 : DigitChars[d] = c

RECURSIVE ParseNat(_)
ParseNat(t) ==
    IF t = <<>> THEN 0
    ELSE 10 * ParseNat(SubSeq(t, 1, Len(t) - 1))
            + (CHOOSE d \in 0..9 : DigitChars[d + 1] = t[Len(t)])

\* t is the decimal text of the natural number n, without leading zeros
IsDecimalOfNat(t, n) ==
    /\ t # <<>>
    /\ \A i \in DOMAIN t : IsDigit(t[i])
    /\ Len(t) > 1 => t[1] # "0"
    /\ ParseNat(t) = n

\* t is the decimal text of the integer v
IsDecimalOf(t, v) ==
    IF t # <<>> /\ t[1] = "-"
    THEN v < 0 /\ IsDecimalOfNat(Tail(t), 0 - v)
    ELSE v >= 0 /\ IsDecimalOfNat(t, v)

\* C17: with a device, the bytes one writeLine(text) call hands to it are the
\* UTF-8 bytes of text followed by CR LF; those of one writeValue(name, value)
\* call are name, ":", the decimal text of value and CR LF if name is not
\* empty, and the decimal text of value and CR LF if it is
WrittenBytesExact ==
    device =>
        LET out == Utf8Decode(tx)
            n == Len(out)
            prefix == IF lastOp.text = <<>> THEN <<>>
                      ELSE lastOp.text \o <<":">>
        IN /\ lastOp.op = "writeLine" =>
                 /\ out = lastOp.text \o <<"\r", "\n">>
                 /\ SubSeq(tx, Len(tx) - 1, Len(tx)) = <<13, 10>>
           /\ lastOp.op = "writeValue" =>
                 /\ n >= Len(prefix) + 3
                 /\ SubSeq(out, 1, Len(prefix)) = prefix
                 /\ SubSeq(tx, Len(tx) - 1, Len(tx)) = <<13, 10>>
                 /\ IsDecimalOf(SubSeq(out, Len(prefix) + 1, n - 2),
                                lastOp.value)

WrittenBytesWitness ==
    /\ device
    /\ lastOp.op = "writeValue"
    /\ lastOp.text = <<"x", "U+00E9">>
    /\ lastOp.value = -3
    /\ tx = <<120, 195, 169, 58, 45, 51, 13, 10>>

\* ---- serial: no device ----------------------------------------------------------
\* without a device no call hands bytes to a transport or registers anything,
\* readBuffer returns an empty buffer and readString and a returned readUntil
\* the empty string
SilentWithoutDevice ==
    /\ tx = <<>>
    /\ attached = {}
    /\ rxBuffer = <<>> /\ decoderBuf = <<>>
    /\ lastOp.op = "readBuffer" => lastOp.ret = BufferValue(<<>>)
    /\ lastOp.op = "readString" => lastOp.ret = TextValue(<<>>)
    /\ lastOp.op \notin {"read", "readBuffer", "readString"} =>
          lastOp.ret = NoValue
    /\ readCall.pc = "done" =>
          /\ readCall.hasTimeOut
          /\ readCall.gaveUp
          /\ readCall.ret = TextValue(<<>>)

\* C16 as claimed: without a device every read returns an empty or zero
\* value, every write and configuration call does nothing, and no call
\* returns an error value
DegradesSilently ==
    ~device =>
        /\ SilentWithoutDevice
        /\ lastOp.op = "read" => lastOp.ret = NumberValue(0)
        /\ lastOp.ret.number >= 0

\* C16: without a device read() returns the error code
\* DAL.DEVICE_NOT_SUPPORTED, a negative number; every other read returns an
\* empty value and every write and configuration call does nothing
DegradesWithErrorCode ==
    ~device =>
        /\ SilentWithoutDevice
        /\ lastOp.op = "read" =>
              /\ lastOp.ret = NumberValue(DEVICE_NOT_SUPPORTED)
              /\ lastOp.ret.number < 0
        /\ lastOp.op # "read" => lastOp.ret.number = 0

DegradesWitness ==
    /\ ~device
    /\ lastOp.op = "read"
    /\ lastOp.ret.number = DEVICE_NOT_SUPPORTED

\* ---- serial: readUntil ------------------------------------------------------------
\* the delimiter is among the bytes
Holds(bytes, delimiter) == FirstIndex(bytes, delimiter) > 0

\* the text before the first delimiter of the bytes
TextBefore(bytes, delimiter) ==
    TextOf(SubSeq(bytes, 1, FirstIndex(bytes, delimiter) - 1))

\* C14 as claimed: a readUntil call whose decoder held the delimiter, or got
\* it from a poll of the call, before the timeout had elapsed returns the text
\* before the delimiter and does not give up
ReadUntilReturnsText ==
    (readCall.pc = "done" /\ readCall.inTime) =>
        /\ ~readCall.gaveUp
        /\ readCall.ret = TextValue(TextBefore(readCall.heard, NewLine))


\* what holds of a readUntil call at every moment: it gives up only with a
\* timeout, returning the empty string when the timeout has elapsed, after one
\* poll and one pause per iteration and at least one of each; with a timeout
\* and no delimiter held or polled it returns only by giving up; without a
\* timeout and with no delimiter held or polled it has not returned
GivesUpOnlyAfterTimeout ==
    /\ (readCall.pc = "done" /\ readCall.gaveUp) =>
          /\ readCall.hasTimeOut
          /\ readCall.ret = TextValue(<<>>)
          /\ now - readCall.start >= readCall.timeOut
          /\ readCall.polls >= 1
          /\ readCall.pauses = readCall.polls
          /\ readCall.polls <= (IF readCall.timeOut = 0 THEN 1
                                                      ELSE readCall.timeOut)
    /\ (readCall.pc = "done" /\ ~Holds(readCall.heard, NewLine)) =>
          readCall.hasTimeOut /\ readCall.gaveUp
    /\ (readCall.pc # "idle" /\ ~readCall.hasTimeOut
            /\ ~Holds(readCall.heard, NewLine)) => readCall.pc # "done"

\* C15: a readUntil call with a timeout T returns; if no delimiter is held or
\* delivered it returns the empty string, not before T has elapsed, having
\* polled once per iteration with a pause after each poll, at least once even
\* if T is 0; without a timeout such a call never returns
ReadUntilGivesUp ==
    /\ []GivesUpOnlyAfterTimeout
    /\ (readCall.pc \in {"loop", "pause"} /\ readCall.hasTimeOut)
          ~> (readCall.pc = "done")

ReadUntilGivesUpWitness ==
    /\ readCall.pc = "done"
    /\ readCall.gaveUp
    /\ readCall.timeOut = 2
    /\ readCall.polls = 2
    /\ readCall.heard = <<97>>
    /\ now - readCall.start = 2

====
